---- MODULE Spec2Model ----
(***************************************************************************)
(* Model of backend/main.py: the spreadsheet parser parse_excel_config,    *)
(* the section assembler append_section and the request handler            *)
(* upload_and_process.                                                      *)
(*                                                                         *)
(* Text is a sequence of characters; a character outside ASCII is written  *)
(* by its code point ("U+FF0C"), and a literal of the source that is never *)
(* taken apart is kept as one element under an ASCII name.  A cell of      *)
(* the sheet is None, a string or a number, as openpyxl hands it over with  *)
(* values_only=True.  The document is the sequence of blocks python-docx   *)
(* appends to the body.                                                     *)
(***************************************************************************)
EXTENDS Integers, Sequences, FiniteSets, TLC

VARIABLES pc, grid, zip, template, sections, img_root, doc, next, hist, files, response

vars == <<pc, grid, zip, template, sections, img_root, doc, next, hist, files, response>>

(***************************************************************************)
(* Bounds of the model.                                                    *)
(***************************************************************************)
\* longest title cell, in tokens of CellTokens
MaxTokens == 3
\* most data rows of a sheet
MaxRows == 3
\* most data rows of a sheet in a whole request
MaxRequestRows == 2
\* most image files in one folder
MaxImages == 12
\* most images of one folder whose insertion fails
MaxBad == 2
\* most consecutive calls of append_section on one document
MaxCalls == 2

(***************************************************************************)
(* Python string primitives.                                               *)
(***************************************************************************)
MAIN_CHAPTER_NUMBER == <<"1">>

Digits == <<"0", "1", "2", "3", "4", "5", "6", "7", "8", "9">>

\* str(n) for an integer n >= 0
RECURSIVE IntToStr(_)
IntToStr(n) ==
    IF n < 10 THEN <<Digits[n + 1]>>
    ELSE IntToStr(n \div 10) \o <<Digits[(n % 10) + 1]>>

\* the full-width comma U+FF0C
FwComma == "U+FF0C"

IsSpace(c) == c \in {" ", "\t"}

RECURSIVE LStrip(_)
LStrip(s) == IF s # <<>> /\ IsSpace(Head(s)) THEN LStrip(Tail(s)) ELSE s

RECURSIVE RStrip(_)
RStrip(s) ==
    IF s # <<>> /\ IsSpace(s[Len(s)]) THEN RStrip(SubSeq(s, 1, Len(s) - 1)) ELSE s

\* s.strip()
Strip(s) == RStrip(LStrip(s))

EndsWith(s, suf) ==
    /\ Len(suf) <= Len(s)
    /\ SubSeq(s, Len(s) - Len(suf) + 1, Len(s)) = suf

\* s.removesuffix(suf): at most one copy of suf is removed
RemoveSuffix(s, suf) ==
    IF suf # <<>> /\ EndsWith(s, suf) THEN SubSeq(s, 1, Len(s) - Len(suf)) ELSE s

\* the places where d occurs in s
Occurrences(s, d) ==
    {i \in 1..(Len(s) - Len(d) + 1) : SubSeq(s, i, i + Len(d) - 1) = d}

\* d in s
Contains(s, d) == Occurrences(s, d) # {}

\* s.rsplit(d, 1) in place of s.split(d, 1): the split at the last d
SplitLast(s, d) ==
    LET i == CHOOSE k \in Occurrences(s, d) : \A j \in Occurrences(s, d) : k >= j
    IN  <<SubSeq(s, 1, i - 1), SubSeq(s, i + Len(d), Len(s))>>

\* s.split(d, 1) when d occurs in s: the text before and after the first d
SplitFirst(s, d) ==
    LET i == CHOOSE k \in Occurrences(s, d) : \A j \in Occurrences(s, d) : k <= j
    IN  <<SubSeq(s, 1, i - 1), SubSeq(s, i + Len(d), Len(s))>>

(***************************************************************************)
(* Cells of the sheet.                                                     *)
(***************************************************************************)
None == [t |-> "none", s |-> <<>>, n |-> 0]
StrCell(s) == [t |-> "str", s |-> s, n |-> 0]
NumCell(n) == [t |-> "num", s |-> <<>>, n |-> n]

\* bool(cell): None, "" and 0 are false
Truthy(c) ==
    \/ c.t = "str" /\ c.s # <<>>
    \/ c.t = "num" /\ c.n # 0

\* str(cell) of a string or a number
PyStr(c) == IF c.t = "num" THEN IntToStr(c.n) ELSE c.s

(***************************************************************************)
(* parse_excel_config                                                      *)
(***************************************************************************)
\* the marker of line 73, its five characters: U+529F U+80FD U+4EE3 U+78BC and ":"
delimiter == <<"U+529F", "U+80FD", "U+4EE3", "U+78BC", ":">>

\* the literal of line 71, kept whole
NotProvided == <<"(not provided)">>

\* the loop body under enumerate(...) without its start of 1
SectionOfRowFromZero(col_a, col_b, idx) ==
    LET title_raw == Strip(PyStr(col_a))
        query_var == IF Truthy(col_b) THEN Strip(PyStr(col_b)) ELSE NotProvided
        found     == Contains(title_raw, delimiter)
        parts     == SplitFirst(title_raw, delimiter)
        title     == IF found
                     THEN Strip(RemoveSuffix(RemoveSuffix(Strip(parts[1]), <<",">>), <<FwComma>>))
                     ELSE title_raw
        folder_id == IF found THEN Strip(parts[2]) ELSE <<>>
    IN  [folder          |-> folder_id,
         title           |-> title,
         query_condition |-> query_var,
         base_number     |-> MAIN_CHAPTER_NUMBER \o <<".">> \o IntToStr(idx - 1)]

\* the body of the loop for a row that is not skipped
SectionOfRow(col_a, col_b, idx) ==
    LET title_raw == Strip(PyStr(col_a))
        query_var == IF Truthy(col_b) THEN Strip(PyStr(col_b)) ELSE NotProvided
        found     == Contains(title_raw, delimiter)
        parts     == SplitFirst(title_raw, delimiter)
        title     == IF found
                     THEN Strip(RemoveSuffix(RemoveSuffix(Strip(parts[1]), <<",">>), <<FwComma>>))
                     ELSE title_raw
        folder_id == IF found THEN Strip(parts[2]) ELSE <<>>
    IN  [folder          |-> folder_id,
         title           |-> title,
         query_condition |-> query_var,
         base_number     |-> MAIN_CHAPTER_NUMBER \o <<".">> \o IntToStr(idx)]

\* whether the loop skips the row
SkipsRow(col_a) == ~Truthy(col_a)

\* the sections appended for rows idx, idx+1, ... of rows (enumerate(..., 1))
RECURSIVE ParseFrom(_, _)
ParseFrom(rows, idx) ==
    IF idx > Len(rows) THEN <<>>
    ELSE IF SkipsRow(rows[idx].a) THEN ParseFrom(rows, idx + 1)
    ELSE <<SectionOfRow(rows[idx].a, rows[idx].b, idx)>> \o ParseFrom(rows, idx + 1)

parse_excel_config(rows) == ParseFrom(rows, 1)

(***************************************************************************)
(* The document: the blocks python-docx appends to the body.               *)
(***************************************************************************)
NoImage == [dir |-> <<>>, name |-> 0, ext |-> ""]

\* doc.add_page_break()
PageBreak ==
    [kind |-> "page_break", level |-> 0, text |-> <<>>, align |-> "default",
     image |-> NoImage, width |-> ""]

\* add_heading_with_font(doc, text, level)
add_heading_with_font(text, level) ==
    [kind |-> "heading", level |-> level, text |-> text, align |-> "default",
     image |-> NoImage, width |-> ""]

\* add_paragraph_with_font(doc, text)
add_paragraph_with_font(text) ==
    [kind |-> "paragraph", level |-> 0, text |-> text, align |-> "default",
     image |-> NoImage, width |-> ""]

\* a paragraph whose alignment is then set to WD_ALIGN_PARAGRAPH.CENTER
Centered(p) == [p EXCEPT !.align = "center"]

uniform_width_cm == "17.98"

\* doc.add_picture(path, width=Cm(17.98)) and the centring of its paragraph
Picture(dir, f) ==
    [kind |-> "image", level |-> 0, text |-> <<>>, align |-> "center",
     image |-> [dir |-> dir, name |-> f.name, ext |-> f.ext], width |-> uniform_width_cm]

(***************************************************************************)
(* The extracted archive.  A node is a directory (its regular files and    *)
(* its sub-directories by name), a regular file, or nothing at all.  A     *)
(* regular file of a directory is [name, ext, ok]: name is the rank of the *)
(* file name in lexicographic order, ext its suffix, ok whether            *)
(* doc.add_picture accepts it.                                              *)
(***************************************************************************)
NoSubs == [x \in {} |-> x]

Dir(fs, subs) == [kind |-> "dir", files |-> fs, subs |-> subs]
RegularFile == [kind |-> "file", files |-> {}, subs |-> NoSubs]
Missing == [kind |-> "missing", files |-> {}, subs |-> NoSubs]

\* the node at str(img_root / folder); img_root / "" is img_root itself
Lookup(root, folder) ==
    IF folder = <<>> THEN root
    ELSE IF root.kind = "dir" /\ folder \in DOMAIN root.subs THEN root.subs[folder]
    ELSE Missing

\* f.lower() of a suffix
Lower(ext) ==
    CASE ext = ".PNG"  -> ".png"
      [] ext = ".JPG"  -> ".jpg"
      [] ext = ".Jpeg" -> ".jpeg"
      [] ext = ".TXT"  -> ".txt"
      [] OTHER         -> ext

\* f.lower().endswith(('.png', '.jpg', '.jpeg'))
IsImageName(f) == Lower(f.ext) \in {".png", ".jpg", ".jpeg"}

\* sorted(..., reverse=True)
RECURSIVE SortedDescending(_)
SortedDescending(fs) ==
    IF fs = {} THEN <<>>
    ELSE LET m == CHOOSE f \in fs : \A g \in fs : f.name >= g.name
         IN  <<m>> \o SortedDescending(fs \ {m})

\* sorted(...) of a set of files, by file name
RECURSIVE Sorted(_)
Sorted(fs) ==
    IF fs = {} THEN <<>>
    ELSE LET m == CHOOSE f \in fs : \A g \in fs : f.name <= g.name
         IN  <<m>> \o Sorted(fs \ {m})

\* lines 97-104 without the except clause: a folder not found raises too
ListdirRaisesOnMissing(node) == node.kind \in {"file", "missing"}

\* os.listdir raises something other than FileNotFoundError
ListdirRaises(node) == node.kind = "file"

\* the images of lines 97-104
ImagesOf(node) ==
    IF node.kind = "dir" THEN Sorted({f \in node.files : IsImageName(f)}) ELSE <<>>

(***************************************************************************)
(* append_section                                                          *)
(***************************************************************************)
\* add_picture_with_uniform_width with "except Exception: pass": an image that
\* fails leaves nothing in its slot
AddPictureSilent(images, dir, idx) ==
    IF idx < Len(images)
    THEN IF images[idx + 1].ok THEN <<Picture(dir, images[idx + 1])>> ELSE <<>>
    ELSE <<Centered(add_paragraph_with_font(
               <<"(warning: image ">> \o IntToStr(idx + 1) \o <<" is missing)">>))>>

\* the blocks add_picture_with_uniform_width(idx) appends
add_picture_with_uniform_width(images, dir, idx) ==
    IF idx < Len(images)
    THEN IF images[idx + 1].ok
         THEN <<Picture(dir, images[idx + 1])>>
         ELSE <<Centered(add_paragraph_with_font(
                    <<"(warning: image ">> \o IntToStr(idx + 1) \o <<" failed: ", "{e}", ")">>))>>
    ELSE <<Centered(add_paragraph_with_font(
               <<"(warning: image ">> \o IntToStr(idx + 1) \o <<" is missing)">>))>>

\* the paragraph of line 103
FolderWarning(section_folder_name) ==
    add_paragraph_with_font(
        <<"warning: no image folder for ">> \o section_folder_name \o <<" found.">>)

\* the text of the level-2 heading of line 127
MainHeadingText(info) == info.title \o <<FwComma>> \o delimiter \o info.folder

\* the blocks of lines 97-104: the warning when the folder is not found
ResolveBlocks(info, node) ==
    IF node.kind = "missing" THEN <<FolderWarning(info.folder)>> ELSE <<>>

\* lines 126-132: the page break, the main heading, the way in, image 1
IntroPart(info, images) ==
    <<PageBreak,
      add_heading_with_font(MainHeadingText(info), 2),
      add_paragraph_with_font(<<"L131:menu path to ">> \o info.title \o <<" opens the window.">>)>>
    \o add_picture_with_uniform_width(images, info.folder, 0)

\* lines 134-145: query all (image 2), query specific (image 3), page break
QueryPart(info, images) ==
    <<add_heading_with_font(<<"L134:query">>, 3),
      add_heading_with_font(<<"L136:query all">>, 4),
      add_paragraph_with_font(<<"L137:query without a condition">>)>>
    \o add_picture_with_uniform_width(images, info.folder, 1)
    \o <<add_heading_with_font(<<"L141:query specific">>, 4),
         add_paragraph_with_font(<<"L142:the condition is: ">> \o info.query_condition),
         add_paragraph_with_font(<<"L143:enter the condition, then query">>)>>
    \o add_picture_with_uniform_width(images, info.folder, 2)
    \o <<PageBreak>>

\* lines 148-149: the result, image 4
ResultPart(info, images) ==
    <<add_heading_with_font(<<"L148:query result">>, 4)>>
    \o add_picture_with_uniform_width(images, info.folder, 3)

\* the approval part with the paragraph of line 153 after the heading of line 155
ApprovalPartParagraphLast(info, images) ==
    <<add_heading_with_font(<<"L152:approval">>, 3),
      add_heading_with_font(<<"L155:queried with data, click approve">>, 4),
      add_paragraph_with_font(<<"L153:query first, then approve">>)>>
    \o add_picture_with_uniform_width(images, info.folder, 4)
    \o <<PageBreak>>

\* lines 152-157: approval, image 5, page break
ApprovalPart(info, images) ==
    <<add_heading_with_font(<<"L152:approval">>, 3),
      add_paragraph_with_font(<<"L153:query first, then approve">>),
      add_heading_with_font(<<"L155:queried with data, click approve">>, 4)>>
    \o add_picture_with_uniform_width(images, info.folder, 4)
    \o <<PageBreak>>

\* lines 159-163: the confirmation (images 6 and 7), page break
ConfirmPart(info, images) ==
    <<add_paragraph_with_font(<<"L159:a confirmation appears">>)>>
    \o add_picture_with_uniform_width(images, info.folder, 5)
    \o <<add_paragraph_with_font(<<"L161:confirm; approver and time are shown">>)>>
    \o add_picture_with_uniform_width(images, info.folder, 6)
    \o <<PageBreak>>

\* lines 165-172: approval without a query (image 8), return (image 9), page break
ReturnPart(info, images) ==
    <<add_heading_with_font(<<"L165:not queried or no data, click approve">>, 4),
      add_paragraph_with_font(<<"L166:a warning appears">>)>>
    \o add_picture_with_uniform_width(images, info.folder, 7)
    \o <<add_heading_with_font(<<"L169:return">>, 3),
         add_paragraph_with_font(<<"L170:click return">>)>>
    \o add_picture_with_uniform_width(images, info.folder, 8)
    \o <<PageBreak>>

\* lines 174-177: the confirmation of the return (images 10 and 11)
ReturnConfirmPart(info, images) ==
    <<add_paragraph_with_font(<<"L174:a confirmation appears">>)>>
    \o add_picture_with_uniform_width(images, info.folder, 9)
    \o <<add_paragraph_with_font(<<"L176:confirm; approver and time are gone">>)>>
    \o add_picture_with_uniform_width(images, info.folder, 10)

\* the blocks of lines 126-177, in the order of the calls
Skeleton(info, images) ==
    IntroPart(info, images) \o QueryPart(info, images) \o ResultPart(info, images)
        \o ApprovalPart(info, images) \o ConfirmPart(info, images)
        \o ReturnPart(info, images) \o ReturnConfirmPart(info, images)

\* append_section that leaves a document alone that holds the section already
AppendSectionOnce(d, info, node) ==
    IF \E n \in 1..Len(d) : d[n] = add_heading_with_font(MainHeadingText(info), 2)
    THEN d
    ELSE d \o ResolveBlocks(info, node) \o Skeleton(info, ImagesOf(node))

\* the document after append_section(doc, section_info, image_folder) returns
append_section(d, info, node) ==
    d \o ResolveBlocks(info, node) \o Skeleton(info, ImagesOf(node))

(***************************************************************************)
(* upload_and_process, one action per step of the handler.                 *)
(***************************************************************************)
\* the session directory after lines 186-193
Uploaded == {"main.docx", "config.xlsx", "images.zip"}

\* lines 203-204: a single top-level directory is taken as the root
Collapse(root) ==
    IF Cardinality(root.files) = 0 /\ Cardinality(DOMAIN root.subs) = 1
    THEN LET only == CHOOSE k \in DOMAIN root.subs : TRUE
         IN  IF root.subs[only].kind = "dir" THEN root.subs[only] ELSE root
    ELSE root

Fail(status) ==
    /\ pc' = "failed"
    /\ response' = status

\* lines 196-198 without the check of line 197
ParseConfigUnchecked ==
    /\ pc = "parse"
    /\ sections' = parse_excel_config(grid)
    /\ pc' = "extract"
    /\ UNCHANGED <<grid, zip, template, img_root, doc, next, hist, files, response>>

\* lines 196-198
ParseConfig ==
    /\ pc = "parse"
    /\ sections' = parse_excel_config(grid)
    /\ IF sections' = <<>>
       THEN Fail("400")
       ELSE pc' = "extract" /\ UNCHANGED response
    /\ UNCHANGED <<grid, zip, template, img_root, doc, next, hist, files>>

\* lines 201-204
ExtractImages ==
    /\ pc = "extract"
    /\ IF zip.valid
       THEN /\ img_root' = Collapse(zip.tree)
            /\ files' = files \cup {"unzipped_images"}
            /\ pc' = "open"
            /\ UNCHANGED response
       ELSE /\ Fail("500")
            /\ UNCHANGED <<img_root, files>>
    /\ UNCHANGED <<grid, zip, template, sections, doc, next, hist>>

\* line 207
OpenTemplate ==
    /\ pc = "open"
    /\ IF template.ok
       THEN /\ doc' = template.blocks
            /\ next' = 1
            /\ pc' = "assemble"
            /\ UNCHANGED response
       ELSE /\ Fail("500")
            /\ UNCHANGED <<doc, next>>
    /\ UNCHANGED <<grid, zip, template, sections, img_root, hist, files>>

\* lines 208-209, one turn of the loop
AssembleSection ==
    /\ pc = "assemble"
    /\ next <= Len(sections)
    /\ LET s    == sections[next]
           node == Lookup(img_root, s.folder)
       IN  IF ListdirRaises(node)
           THEN /\ Fail("500")
                /\ UNCHANGED <<doc, next, hist>>
           ELSE /\ doc' = append_section(doc, s, node)
                /\ hist' = Append(hist, doc)
                /\ next' = next + 1
                /\ UNCHANGED <<pc, response>>
    /\ UNCHANGED <<grid, zip, template, sections, img_root, files>>

\* lines 210-215
SaveDocument ==
    /\ pc = "assemble"
    /\ next > Len(sections)
    /\ files' = files \cup {"processed_main.docx"}
    /\ response' = "200 sid/processed_main.docx"
    /\ pc' = "done"
    /\ UNCHANGED <<grid, zip, template, sections, img_root, doc, next, hist>>

(***************************************************************************)
(* The inputs.                                                             *)
(***************************************************************************)
CellTokens == {<<"F">>, <<" ">>, <<",">>, <<FwComma>>, <<":">>, delimiter}

\* the texts made of at most n tokens
RECURSIVE TokenTexts(_)
TokenTexts(n) ==
    IF n = 0 THEN {<<>>}
    ELSE LET shorter == TokenTexts(n - 1)
         IN  shorter \cup {t \o s : t \in CellTokens, s \in shorter}

TitleCells == {None, NumCell(0), NumCell(7)} \cup {StrCell(s) : s \in TokenTexts(MaxTokens)}

FolderX == <<"X">>

PlainTitleCells ==
    {None, NumCell(0), StrCell(<<"T", ",">> \o delimiter \o FolderX), StrCell(<<" ", "G">>)}

QueryCells == {None, StrCell(<<" ", "q">>)}

Rows(as, bs) == [a : as, b : bs]

\* the sheets of at most n rows
RECURSIVE Sheets(_, _)
Sheets(rows, n) ==
    IF n = 0 THEN {<<>>}
    ELSE LET shorter == Sheets(rows, n - 1)
         IN  shorter \cup {<<r>> \o g : r \in rows, g \in shorter}

ParseGrids ==
    {<<r>> : r \in Rows(TitleCells, QueryCells)}
        \cup Sheets(Rows(PlainTitleCells, QueryCells), MaxRows)

RequestGrids == Sheets(Rows(PlainTitleCells \ {NumCell(0)}, QueryCells), MaxRequestRows)

ImageExts == <<".png", ".JPG", ".jpeg", ".PNG", ".jpg", ".Jpeg">>

\* n image files, those of bad unreadable
Images(n, bad) ==
    {[name |-> 10 * i, ext |-> ImageExts[(i % Len(ImageExts)) + 1], ok |-> i \notin bad] : i \in 1..n}

\* files that are no images
JunkFiles ==
    {[name |-> 5, ext |-> ".txt", ok |-> FALSE],
     [name |-> 25, ext |-> ".TXT", ok |-> FALSE],
     [name |-> 115, ext |-> ".gif", ok |-> FALSE]}

FolderNodes ==
    {Missing, RegularFile}
        \cup {Dir(Images(n, bad) \cup junk, NoSubs) :
                 n \in {m \in 0..MaxImages : TRUE},
                 bad \in {b \in SUBSET (1..MaxImages) : Cardinality(b) <= MaxBad},
                 junk \in {{}, JunkFiles}}

\* the folders a request's archive may hold for FolderX
RequestFolders ==
    {Missing, RegularFile,
     Dir({}, NoSubs),
     Dir(Images(11, {}), NoSubs),
     Dir(Images(12, {1}) \cup JunkFiles, NoSubs),
     Dir(Images(12, {12}), NoSubs)}

Content(node, loose) ==
    Dir(loose, IF node.kind = "missing" THEN NoSubs ELSE (FolderX :> node))

Archives ==
    {[valid |-> FALSE, tree |-> Dir({}, NoSubs)]}
        \cup {[valid |-> TRUE, tree |-> Content(node, loose)] :
                 node \in RequestFolders, loose \in {{}, Images(11, {})}}
        \cup {[valid |-> TRUE, tree |-> Dir({}, (<<"w">> :> Content(node, loose)))] :
                 node \in RequestFolders, loose \in {{}, Images(11, {})}}

TemplateBlocks == <<add_paragraph_with_font(<<"template text">>)>>

Templates == {[ok |-> TRUE, blocks |-> TemplateBlocks], [ok |-> FALSE, blocks |-> <<>>]}

(***************************************************************************)
(* The request: parse, extract, open, assemble each section, save.          *)
(***************************************************************************)
Init ==
    /\ pc = "parse"
    /\ grid \in RequestGrids
    /\ zip \in Archives
    /\ template \in Templates
    /\ sections = <<>>
    /\ img_root = Missing
    /\ doc = <<>>
    /\ next = 0
    /\ hist = <<>>
    /\ files = Uploaded
    /\ response = "pending"

Next ==
    \/ ParseConfig
    \/ ExtractImages
    \/ OpenTemplate
    \/ AssembleSection
    \/ SaveDocument

Spec == Init /\ [][Next]_vars

(***************************************************************************)
(* parse_excel_config alone, on every sheet of ParseGrids.                 *)
(***************************************************************************)
InitParse ==
    /\ pc = "parse"
    /\ grid \in ParseGrids
    /\ zip = [valid |-> FALSE, tree |-> Dir({}, NoSubs)]
    /\ template = [ok |-> FALSE, blocks |-> <<>>]
    /\ sections = <<>>
    /\ img_root = Missing
    /\ doc = <<>>
    /\ next = 0
    /\ hist = <<>>
    /\ files = Uploaded
    /\ response = "pending"

NextParse == ParseConfig

SpecParse == InitParse /\ [][NextParse]_vars

(***************************************************************************)
(* append_section alone: up to MaxCalls calls with the same arguments on   *)
(* one document.                                                            *)
(***************************************************************************)
SectionInfos ==
    {SectionOfRow(StrCell(<<"T", ",">> \o delimiter \o FolderX), StrCell(<<"q">>), 1),
     SectionOfRow(StrCell(<<"G">>), None, 2)}

InitialDocs == {<<>>, TemplateBlocks \o <<PageBreak>>}

\* the root under which str(img_root / info.folder) is node
RootFor(info, node) ==
    IF info.folder = <<>> THEN node
    ELSE Dir({}, IF node.kind = "missing" THEN NoSubs ELSE (info.folder :> node))

InitAssemble ==
    /\ pc = "call"
    /\ grid = <<>>
    /\ zip = [valid |-> FALSE, tree |-> Dir({}, NoSubs)]
    /\ template = [ok |-> FALSE, blocks |-> <<>>]
    /\ \E info \in SectionInfos, node \in FolderNodes :
          /\ sections = <<info>>
          /\ img_root = RootFor(info, node)
    /\ doc \in InitialDocs
    /\ next = 0
    /\ hist = <<>>
    /\ files = {}
    /\ response = "pending"

\* one call append_section(doc, sections[1], str(img_root / folder))
CallAppendSection ==
    /\ pc = "call"
    /\ next < MaxCalls
    /\ LET s    == sections[1]
           node == Lookup(img_root, s.folder)
       IN  IF ListdirRaises(node)
           THEN /\ pc' = "raised"
                /\ UNCHANGED <<doc, next, hist>>
           ELSE /\ doc' = append_section(doc, s, node)
                /\ hist' = Append(hist, doc)
                /\ next' = next + 1
                /\ UNCHANGED pc
    /\ UNCHANGED <<grid, zip, template, sections, img_root, files, response>>

NextAssemble == CallAppendSection

SpecAssemble == InitAssemble /\ [][NextAssemble]_vars

(***************************************************************************)
(* Properties of parse_excel_config, checked under SpecParse.               *)
(***************************************************************************)
\* the elements of a set of numbers, ascending
RECURSIVE Ascending(_)
Ascending(S) ==
    IF S = {} THEN <<>>
    ELSE LET m == CHOOSE x \in S : \A y \in S : x <= y
         IN  <<m>> \o Ascending(S \ {m})

\* a cell that holds something: a number or a string of at least one character
NonEmptyCell(c) == c.t = "num" \/ (c.t = "str" /\ c.s # <<>>)

NonEmptyRows(g) == Ascending({i \in 1..Len(g) : NonEmptyCell(g[i].a)})

\* the rows the loop does not skip
EmittedRows(g) == Ascending({i \in 1..Len(g) : Truthy(g[i].a)})

Parsed == pc # "parse"

DigitValue(c) == CHOOSE d \in 0..9 : Digits[d + 1] = c

RECURSIVE StrToInt(_)
StrToInt(s) ==
    IF s = <<>> THEN 0
    ELSE 10 * StrToInt(SubSeq(s, 1, Len(s) - 1)) + DigitValue(s[Len(s)])

\* the number after "1." in a base label
LabelIndex(label) == StrToInt(SubSeq(label, 3, Len(label)))

\* C1: a sheet with at least one non-empty title cell yields exactly one
\* descriptor per row whose column-A cell is non-empty, none for the other rows,
\* and the descriptors come in the order of their rows.
C1_OneDescriptorPerNonEmptyRow ==
    (Parsed /\ NonEmptyRows(grid) # <<>>) =>
        LET rows == NonEmptyRows(grid)
        IN  /\ Len(sections) = Len(rows)
            /\ \A k \in 1..Len(rows) :
                  sections[k] = SectionOfRow(grid[rows[k]].a, grid[rows[k]].b, rows[k])

\* C2 as claimed: the k-th descriptor carries the base label "1.k", also when
\* rows with an empty title cell were skipped before it.
C2_LabelIsOutputPosition ==
    Parsed => \A k \in 1..Len(sections) :
                 sections[k].base_number = <<"1", ".">> \o IntToStr(k)

\* C2 as amended: the k-th descriptor carries the base label "1.r", r the
\* 1-based position of its row among all data rows, skipped rows counted; the
\* labels are strictly increasing and the k-th label is at least k.
C2_LabelIsRowPosition ==
    Parsed =>
        LET rows == EmittedRows(grid)
        IN  /\ Len(sections) = Len(rows)
            /\ \A k \in 1..Len(sections) :
                  /\ sections[k].base_number = <<"1", ".">> \o IntToStr(rows[k])
                  /\ LabelIndex(sections[k].base_number) >= k
                  /\ \A j \in 1..(k - 1) :
                        LabelIndex(sections[j].base_number)
                            < LabelIndex(sections[k].base_number)

\* a descriptor emitted after a skipped row: its label is beyond its position
C2_Witness ==
    /\ Parsed
    /\ \E k \in 1..Len(sections) : LabelIndex(sections[k].base_number) > k

IsComma(c) == c \in {",", FwComma}

EndsInCommaOrSpace(s) == s # <<>> /\ (IsComma(s[Len(s)]) \/ IsSpace(s[Len(s)]))

\* the text of the title cell of the k-th descriptor
SourceText(k) == PyStr(grid[EmittedRows(grid)[k]].a)

\* the marker stands at place i of s
MarkerAt(s, i) ==
    /\ i >= 1
    /\ i + Len(delimiter) - 1 <= Len(s)
    /\ \A n \in 1..Len(delimiter) : s[i + n - 1] = delimiter[n]

\* the first place of the marker in s: no occurrence starts before it
IsFirstMarker(s, i) ==
    /\ MarkerAt(s, i)
    /\ \A j \in 1..(i - 1) : ~MarkerAt(s, j)

HasMarker(s) == \E i \in 1..Len(s) : IsFirstMarker(s, i)

\* s with one trailing comma of either form taken off
DropOneComma(s) ==
    IF s # <<>> /\ IsComma(s[Len(s)]) THEN SubSeq(s, 1, Len(s) - 1) ELSE s

\* C3 as claimed: with the marker in the cell, folder_id is the trimmed text
\* after the first marker and title is the text before it without surrounding
\* whitespace and trailing comma, so that title never ends in a comma of
\* either form or in whitespace; without the marker folder_id is empty and
\* title is the trimmed cell.
C3_TitleNeverEndsInComma ==
    Parsed => \A k \in 1..Len(sections) :
        LET s == SourceText(k)
        IN  IF HasMarker(s)
            THEN \E i \in 1..Len(s) :
                    /\ IsFirstMarker(s, i)
                    /\ sections[k].folder = Strip(SubSeq(s, i + Len(delimiter), Len(s)))
                    /\ ~EndsInCommaOrSpace(sections[k].title)
            ELSE sections[k].folder = <<>> /\ sections[k].title = Strip(s)

\* C3 as amended: the split is at the first marker and folder_id is the trimmed
\* text after it; title is the trimmed text before it less at most one trailing
\* ASCII comma and then at most one trailing full-width comma, trimmed again.
\* It never starts or ends in whitespace, and it does not end in a comma when
\* the trimmed text before the marker, one trailing comma taken off and trimmed,
\* does not end in a comma.  Without the marker folder_id is empty and title is
\* the trimmed cell.
C3_TitleLosesOneComma ==
    Parsed => \A k \in 1..Len(sections) :
        LET s == SourceText(k)
        IN  IF HasMarker(s)
            THEN \E i \in 1..Len(s) :
                    LET before == Strip(SubSeq(s, 1, i - 1))
                        title  == sections[k].title
                        cut    == SubSeq(before, Len(title) + 1, Len(before))
                    IN  /\ IsFirstMarker(s, i)
                        /\ sections[k].folder = Strip(SubSeq(s, i + Len(delimiter), Len(s)))
                        /\ Len(title) <= Len(before)
                        /\ title = SubSeq(before, 1, Len(title))
                        /\ \A n \in 1..Len(cut) : IsComma(cut[n]) \/ IsSpace(cut[n])
                        /\ Cardinality({n \in 1..Len(cut) : cut[n] = ","}) <= 1
                        /\ Cardinality({n \in 1..Len(cut) : cut[n] = FwComma}) <= 1
                        /\ title = Strip(title)
                        /\ (~EndsInCommaOrSpace(before)) => title = before
                        /\ (~EndsInCommaOrSpace(Strip(DropOneComma(before))))
                              => title = Strip(DropOneComma(before))
            ELSE sections[k].folder = <<>> /\ sections[k].title = Strip(s)

\* a cell with the marker twice and a comma before the first: the second marker
\* stays in folder_id and the comma is gone from the title
C3_Witness ==
    /\ Parsed
    /\ \E k \in 1..Len(sections) :
          /\ HasMarker(sections[k].folder)
          /\ \E i \in 1..Len(SourceText(k)) :
                /\ IsFirstMarker(SourceText(k), i)
                /\ i > 1
                /\ IsComma(SourceText(k)[i - 1])

(***************************************************************************)
(* Properties of append_section, checked under SpecAssemble (one           *)
(* descriptor, sections[1]) and under Spec (the j-th call takes            *)
(* sections[j]).  hist[j] is the document as the j-th call found it.        *)
(***************************************************************************)
Calls == 1..Len(hist)

\* the document as the j-th call left it
DocAfter(j) == IF j < Len(hist) THEN hist[j + 1] ELSE doc

\* the blocks the j-th call added
Delta(j) == SubSeq(DocAfter(j), Len(hist[j]) + 1, Len(DocAfter(j)))

Count(d, Test(_)) == Cardinality({n \in 1..Len(d) : Test(d[n])})

IsPageBreak(b) == b.kind = "page_break"
IsHeading(b) == b.kind = "heading"
IsImage(b) == b.kind = "image"
IsMainHeading(b) == b.kind = "heading" /\ b.level = 2

\* a block in the place of an image: the picture or the centred warning
IsSlotBlock(b) == b.kind = "image" \/ (b.kind = "paragraph" /\ b.align = "center")

\* a paragraph of the fixed text
IsFixedParagraph(b) == b.kind = "paragraph" /\ b.align = "default"

IsFolderWarning(b) ==
    b.kind = "paragraph" /\ b.text # <<>> /\ Head(b.text) = "warning: no image folder for "

IsWarning(b) ==
    \/ IsFolderWarning(b)
    \/ b.kind = "paragraph" /\ b.text # <<>> /\ Head(b.text) = "(warning: image "

\* the warning that image n is missing
IsMissingWarning(b, n) ==
    /\ b.kind = "paragraph"
    /\ b.text = <<"(warning: image ">> \o IntToStr(n) \o <<" is missing)">>

\* a warning paragraph that names image n
NamesSlot(b, n) ==
    /\ b.kind = "paragraph"
    /\ Len(b.text) >= Len(IntToStr(n)) + 2
    /\ Head(b.text) = "(warning: image "
    /\ SubSeq(b.text, 2, Len(IntToStr(n)) + 1) = IntToStr(n)
    /\ b.text[Len(IntToStr(n)) + 2] \in {" is missing)", " failed: "}

\* the image files of a folder and their names in ascending order
ImageFiles(node) == {f \in node.files : IsImageName(f)}
ImageNames(node) == Ascending({f.name : f \in ImageFiles(node)})
FileNamed(node, name) == CHOOSE f \in node.files : f.name = name

\* b is what slot i of a section has to be, names being the names of the
\* images of its folder in ascending order
IsSlotOf(b, node, names, i) ==
    IF i < Len(names) /\ FileNamed(node, names[i + 1]).ok
    THEN /\ b.kind = "image"
         /\ b.image.name = names[i + 1]
         /\ b.image.ext = FileNamed(node, names[i + 1]).ext
    ELSE NamesSlot(b, i + 1)

\* the folder of the only descriptor of SpecAssemble
TheNode == Lookup(img_root, sections[1].folder)

\* the folder of the j-th descriptor of a request
NodeOf(j) == Lookup(img_root, sections[j].folder)

\* C4: with an image folder of n >= 0 image files, whichever of them fail to
\* insert, a call does not raise and appends exactly 11 slot blocks, slots 0..10
\* in ascending order: slot i is the i-th image by file name when i < n and it
\* inserts, else one warning paragraph naming slot i+1; the images from place
\* 11 on are never inserted.
C4_ElevenSlots ==
    LET node  == TheNode
        names == IF node.kind = "dir" THEN ImageNames(node) ELSE <<>>
    IN  node.kind = "dir" =>
            /\ pc # "raised"
            /\ \A j \in Calls :
                  LET d     == Delta(j)
                      slots == SelectSeq(d, IsSlotBlock)
                  IN  /\ Len(slots) = 11
                      /\ \A i \in 0..10 : IsSlotOf(slots[i + 1], node, names, i)
                      /\ \A n \in 1..Len(d) :
                            IsImage(d[n]) =>
                                \E i \in 1..Len(names) : i <= 11 /\ names[i] = d[n].image.name
                      /\ Count(d, IsImage) + Count(d, IsWarning) = 11

\* a call on a folder of more than 11 images, one of the first 11 unreadable,
\* among files that are no images
C4_Witness ==
    /\ Len(hist) >= 1
    /\ TheNode.kind = "dir"
    /\ Len(ImageNames(TheNode)) > 11
    /\ ImageFiles(TheNode) # TheNode.files
    /\ \E i \in 1..11 : ~FileNamed(TheNode, ImageNames(TheNode)[i]).ok

\* C5: whether the image folder exists or not, the first block a call appends
\* is a page break and the second the level-2 heading; every other block of the
\* call, the folder-missing warning included, comes after that page break.
C5_PageBreakFirst ==
    \A j \in Calls :
        /\ Len(Delta(j)) >= 2
        /\ Delta(j)[1] = PageBreak
        /\ Delta(j)[2] = add_heading_with_font(
                             sections[1].title \o <<FwComma>> \o delimiter
                                 \o sections[1].folder, 2)

RECURSIVE Repeat(_, _)
Repeat(blocks, n) == IF n = 0 THEN <<>> ELSE blocks \o Repeat(blocks, n - 1)

\* C7: append_section only appends: after the j-th call with the same
\* arguments the document is the initial document followed by j copies of the
\* blocks S the first call added, so two calls add twice the length of one.
C7_StrictlyAdditive ==
    \A j \in Calls :
        LET S == Delta(1)
        IN  /\ S # <<>>
            /\ Len(DocAfter(j)) >= Len(hist[1])
            /\ SubSeq(DocAfter(j), 1, Len(hist[1])) = hist[1]
            /\ DocAfter(j) = hist[1] \o Repeat(S, j)
            /\ Len(DocAfter(j)) - Len(hist[1]) = j * (Len(DocAfter(1)) - Len(hist[1]))

\* two calls on a document that was not empty
C7_Witness ==
    /\ Len(hist) >= 2
    /\ hist[1] # <<>>
    /\ TheNode.kind = "missing"

\* C10 as claimed: in the approval part a call appends, with nothing in
\* between, the level-4 heading, a fixed paragraph, the block of slot 5 and a
\* page break.
C10_ParagraphBeforeSlot5 ==
    \A j \in Calls :
        \E p \in 1..(Len(Delta(j)) - 3) :
            /\ Delta(j)[p] = add_heading_with_font(<<"L155:queried with data, click approve">>, 4)
            /\ IsFixedParagraph(Delta(j)[p + 1])
            /\ IsSlotOf(Delta(j)[p + 2], TheNode, ImageNames(TheNode), 4)
            /\ Delta(j)[p + 3] = PageBreak

\* C10 as amended: in the approval part a call appends, with nothing in
\* between, the level-3 heading, the fixed paragraph, the level-4 heading, the
\* block of slot 5 and a page break: the paragraph stands before the level-4
\* heading and nothing separates that heading from slot 5.
C10_HeadingThenSlot5 ==
    \A j \in Calls :
        \E p \in 1..(Len(Delta(j)) - 4) :
            /\ Delta(j)[p] = add_heading_with_font(<<"L152:approval">>, 3)
            /\ Delta(j)[p + 1] = add_paragraph_with_font(<<"L153:query first, then approve">>)
            /\ Delta(j)[p + 2] = add_heading_with_font(<<"L155:queried with data, click approve">>, 4)
            /\ IsSlotOf(Delta(j)[p + 3], TheNode, ImageNames(TheNode), 4)
            /\ IsSlotBlock(Delta(j)[p + 3])
            /\ Delta(j)[p + 4] = PageBreak
            /\ Count(SubSeq(Delta(j), 1, p - 1), IsSlotBlock) = 4

\* a call whose slot 5 is a picture
C10_Witness ==
    /\ Len(hist) >= 1
    /\ TheNode.kind = "dir"
    /\ Len(ImageNames(TheNode)) >= 5
    /\ FileNamed(TheNode, ImageNames(TheNode)[5]).ok

(***************************************************************************)
(* Properties of upload_and_process, checked under Spec.                    *)
(***************************************************************************)
\* what the request appended to the template
Appended == SubSeq(doc, Len(template.blocks) + 1, Len(doc))

OutputSaved == "processed_main.docx" \in files

\* the headings of level 2 a request appended are those of its descriptors
HeadingsInOrder ==
    LET hs == SelectSeq(Appended, IsMainHeading)
    IN  /\ Len(hs) = Len(sections)
        /\ \A j \in 1..Len(sections) :
              hs[j].text = sections[j].title \o <<FwComma>> \o delimiter \o sections[j].folder

\* C6: a call whose image folder does not exist does not raise: it appends one
\* folder-missing warning naming the folder_id, the 11 slot-missing warnings
\* numbered 1 to 11, no image, and the whole skeleton of headings, paragraphs
\* and page breaks; the handler goes on with every later descriptor in order
\* and saves the document.
C6_MissingFolderDegrades ==
    /\ \A j \in Calls :
          NodeOf(j).kind = "missing" =>
              LET d == Delta(j)
                  IsThisFolderWarning(b) ==
                      b = add_paragraph_with_font(
                              <<"warning: no image folder for ">> \o sections[j].folder
                                  \o <<" found.">>)
              IN  /\ Count(d, IsFolderWarning) = 1
                  /\ Count(d, IsThisFolderWarning) = 1
                  /\ Count(d, IsSlotBlock) = 11
                  /\ \A i \in 1..11 : SelectSeq(d, IsSlotBlock)[i].align = "center"
                                         /\ IsMissingWarning(SelectSeq(d, IsSlotBlock)[i], i)
                  /\ Count(d, IsImage) = 0
                  /\ Count(d, IsPageBreak) = 5
                  /\ Count(d, IsHeading) = 9
                  /\ Count(d, IsFixedParagraph) = 12
                  /\ Len(d) = 37
    \* a failure while assembling is never due to a folder that is not there
    /\ (pc = "failed" /\ next >= 1) => NodeOf(next).kind = "file"
    \* a folder that is not there does not stop the loop
    /\ (pc = "assemble" /\ next <= Len(sections) /\ NodeOf(next).kind = "missing")
          => ENABLED AssembleSection
    /\ pc = "assemble" => Len(hist) = next - 1
    /\ pc = "done" => /\ Len(hist) = Len(sections)
                      /\ OutputSaved
                      /\ HeadingsInOrder

\* a finished request of two descriptors, the folder of the first not there
C6_Witness ==
    /\ pc = "done"
    /\ Len(sections) >= 2
    /\ NodeOf(1).kind = "missing"

InsertableImages(node) == {f \in ImageFiles(node) : f.ok}

FirstElevenInsert(node) ==
    /\ node.kind = "dir"
    /\ Cardinality(ImageFiles(node)) >= 11
    /\ \A i \in 1..11 : FileNamed(node, ImageNames(node)[i]).ok

\* what C8 says of the appended content of a finished request of k descriptors
CleanOutput ==
    /\ HeadingsInOrder
    /\ Count(Appended, IsMainHeading) = Len(sections)
    /\ Count(Appended, IsImage) = 11 * Len(sections)
    /\ Count(Appended, IsPageBreak) = 5 * Len(sections)
    /\ Count(Appended, IsWarning) = 0

\* C8 as claimed: when every descriptor has an existing image folder with at
\* least 11 insertable images, the appended content is k level-2 headings in
\* descriptor order, 11*k images, 5*k page breaks and no warning paragraph;
\* every call inserts exactly 5 page breaks.
C8_ElevenInsertableImages ==
    /\ \A j \in Calls : Count(Delta(j), IsPageBreak) = 5
    /\ (/\ pc = "done"
        /\ \A j \in 1..Len(sections) :
              /\ NodeOf(j).kind = "dir"
              /\ Cardinality(InsertableImages(NodeOf(j))) >= 11)
          => CleanOutput

\* C8 as amended: when every descriptor has an existing image folder whose
\* first 11 images by file name all insert, the appended content is k level-2
\* headings in descriptor order, 11*k images, 5*k page breaks and no warning
\* paragraph; every call inserts exactly 5 page breaks.
C8_FirstElevenInsertable ==
    /\ \A j \in Calls : Count(Delta(j), IsPageBreak) = 5
    /\ (pc = "done" /\ \A j \in 1..Len(sections) : FirstElevenInsert(NodeOf(j)))
          => CleanOutput

\* a finished request of two descriptors whose folders hold 12 images, the
\* last of them unreadable
C8_Witness ==
    /\ pc = "done"
    /\ Len(sections) >= 2
    /\ \A j \in 1..Len(sections) : FirstElevenInsert(NodeOf(j))
    /\ \E j \in 1..Len(sections) : InsertableImages(NodeOf(j)) # ImageFiles(NodeOf(j))

\* C9: a sheet of zero descriptors ends the request in the client error 400
\* with the archive not extracted, the template not opened, append_section not
\* called and nothing saved; on every failure of the handler no processed_*
\* file is in the session directory and no download path is returned.
C9_NoOutputOnFailure ==
    /\ (Parsed /\ sections = <<>>) =>
          /\ pc = "failed"
          /\ response = "400"
          /\ "unzipped_images" \notin files
          /\ img_root = Missing
          /\ doc = <<>>
          /\ next = 0
          /\ hist = <<>>
          /\ ~OutputSaved
    /\ pc = "failed" => /\ ~OutputSaved
                        /\ response \in {"400", "500"}
    /\ response = "400" => sections = <<>>
    /\ OutputSaved <=> pc = "done"
    /\ pc = "done" <=> response = "200 sid/processed_main.docx"

\* a request rejected for its sheet though archive and template are good
C9_Witness ==
    /\ pc = "failed"
    /\ response = "400"
    /\ Len(grid) >= 1
    /\ zip.valid
    /\ template.ok

====
